---- MODULE Spec2Model ----
(***************************************************************************)
(* A model of mkvstrip.py: the track selector (_filtered_tracks), the      *)
(* alignment check and remux decision (remux_required), the construction   *)
(* of the mkvmerge / mkvextract / mkvpropedit command lines (remove_tracks *)
(* and cleanup), the execution of those commands (edit_file), the          *)
(* finalisation of the file (replace_file) and the loop of main.           *)
(*                                                                         *)
(* A Python string is a sequence of pieces.  Digits, separators and the    *)
(* characters of titles are one piece each; option names, tool names,      *)
(* language codes and codec names are one piece as a whole.  None is the   *)
(* one-piece string NoneStr for string attributes and NoneInt for          *)
(* integer attributes.                                                     *)
(***************************************************************************)
EXTENDS Integers, Sequences, FiniteSets, TLC

VARIABLES
    cli_args,       \* the parsed options (global cli_args)
    disk,           \* the directory: per file its media content and which names exist
    pc,             \* position of main
    movie_list,     \* files of walk_directory still to be processed
    mkv,            \* the current MKVFile object
    lru,            \* the lru_cache of _filtered_tracks
    results,        \* values returned by remux_required on the current object
    plans,          \* commands built by remove_tracks on the current object
    command,        \* the mkvmerge or mkvpropedit command of the current file
    extract_command,\* the mkvextract command of the current file
    launched,       \* the tools started by subprocess.Popen, in order
    processed       \* files for which main has called remove_tracks or cleanup

vars == <<cli_args, disk, pc, movie_list, mkv, lru, results, plans, command,
          extract_command, launched, processed>>

----------------------------------------------------------------------------
(* Bounds *)

\* tracks of one type in a file
MaxGroup == 2
\* subtitle tracks in a file whose subtitles are extracted
MaxExtract == 3
\* files in the directory
MaxFiles == 2

----------------------------------------------------------------------------
(* Python values *)

NoneStr == <<"<None>">>
NoneInt == -1

Truthy(s) == s # NoneStr /\ s # <<>>

Range(s) == {s[i] : i \in 1..Len(s)}

RECURSIVE Concat(_)
Concat(ss) == IF ss = <<>> THEN <<>> ELSE Head(ss) \o Concat(Tail(ss))

\* sep.join(parts)
RECURSIVE Join(_, _)
Join(sep, parts) ==
    IF parts = <<>> THEN <<>>
    ELSE IF Len(parts) = 1 THEN parts[1]
    ELSE parts[1] \o sep \o Join(sep, Tail(parts))

Digit(d) == CASE d = 0 -> "0" [] d = 1 -> "1" [] d = 2 -> "2" [] d = 3 -> "3"
              [] d = 4 -> "4" [] d = 5 -> "5" [] d = 6 -> "6" [] d = 7 -> "7"
              [] d = 8 -> "8" [] d = 9 -> "9"

\* str(n) for n >= 0
RECURSIVE Str(_)
Str(n) == IF n < 10 THEN <<Digit(n)>> ELSE Str(n \div 10) \o <<Digit(n % 10)>>

\* list.extend(s) for a string s: one element per character
Chars(s) == [i \in 1..Len(s) |-> <<s[i]>>]

LowerChar(c) == CASE c = "S" -> "s" [] c = "D" -> "d" [] c = "H" -> "h"
                  [] c = "E" -> "e" [] c = "F" -> "f" [] c = "M" -> "m"
                  [] OTHER -> c

\* s.lower()
Lower(s) == [i \in 1..Len(s) |-> LowerChar(s[i])]

\* sub in s
Contains(s, sub) ==
    \E i \in 0..(Len(s) - Len(sub)) : SubSeq(s, i + 1, i + Len(sub)) = sub

sdh == <<"s", "d", "h">>

\* track.title and "sdh" in track.title.lower()
IsSDH(title) == Truthy(title) /\ Contains(Lower(title), sdh)

\* s.index(c), counted from 0
Index(s, c) == (CHOOSE i \in 1..Len(s) : s[i] = c /\ \A j \in 1..(i - 1) : s[j] # c) - 1

\* s[a:b]
Slice(s, a, b) == SubSeq(s, a + 1, b)

\* s.endswith(suffix)
EndsWith(s, suffix) ==
    Len(s) >= Len(suffix) /\ SubSeq(s, Len(s) - Len(suffix) + 1, Len(s)) = suffix

\* s.split(" / ") where the separator is one piece
RECURSIVE Split(_, _)
Split(s, sep) ==
    IF \A i \in 1..Len(s) : s[i] # sep THEN <<s>>
    ELSE LET k == CHOOSE i \in 1..Len(s) : s[i] = sep /\ \A j \in 1..(i - 1) : s[j] # sep
         IN <<SubSeq(s, 1, k - 1)>> \o Split(SubSeq(s, k + 1, Len(s)), sep)

----------------------------------------------------------------------------
(* Strings of the program and of the media files *)

eng == <<"eng">>
fra == <<"fra">>
ger == <<"ger">>
und == <<"und">>
Yes == <<"Yes">>
No == <<"No">>
UTF8 == <<"S_TEXT/UTF8">>
ASCII == <<"S_TEXT/ASCII">>
PGS == <<"S_HDMV/PGS">>
General_Duration == <<"General_Duration">>
MEDIAINFO_DEFAULT == <<"mediainfo">>
MKVEXTRACT_DEFAULT == <<"mkvextract">>
MKVMERGE_DEFAULT == <<"mkvmerge">>
MKVPROPEDIT_DEFAULT == <<"mkvpropedit">>
edited == <<"[", "e", "d", "i", "t", "e", "d", "]">>
mkv_suffix == <<".", "m", "k", "v">>
MIN_AGE_DEFAULT == 0

English == <<"E", "n", "g", "l", "i", "s", "h">>
French == <<"F", "r", "e", "n", "c", "h">>
German == <<"G", "e", "r", "m", "a", "n">>
ParenForced == <<" ", "(", "F", "o", "r", "c", "e", "d", ")">>
BracketForced == <<" ", "[", "F", "o", "r", "c", "e", "d", "]">>
ParenSDH == <<" ", "(", "S", "D", "H", ")">>
SDH == <<"S", "D", "H">>
AC3 == <<"Dolby Digital">>
Other == <<"o", "t", "h", "e", "r">>

\* track.other_language[0]: the display name mediainfo gives for a language
LangName(l) == CASE l = eng -> English [] l = fra -> French [] l = ger -> German
                 [] OTHER -> NoneStr

\* the path of the i-th file of the directory: /d/M<i> [x].mkv
PathOf(i) == <<"/", "d", "/", "M", Digit(i), " ", "[", "x", "]", ".", "m", "k", "v">>

\* os.path.split(path)[1]
RECURSIVE Basename(_)
Basename(p) ==
    IF \A i \in 1..Len(p) : p[i] # "/" THEN p
    ELSE Basename(SubSeq(p, Index(p, "/") + 2, Len(p)))

\* replace_file: edit_file, the name the finished file is given
EditFile(org_file) ==
    LET edit_title == Slice(org_file, 0, Index(org_file, "]") + 1)
        edit_suffix == Slice(org_file, Index(org_file, "]") + 1, Len(org_file))
    IN edit_title \o edited \o edit_suffix

----------------------------------------------------------------------------
(* Track model: the attributes of a pymediainfo Track that the program reads *)

Track(type, order, language, codec, forced, title, size, cname, dsrc, csrc) ==
    [track_type |-> type, streamorder |-> order, track_id |-> order + 1,
     language |-> language, codec_id |-> codec, forced |-> forced,
     title |-> title, stream_size |-> size, commercial_name |-> cname,
     other_language |-> LangName(language),
     duration_source |-> dsrc, count_source |-> csrc]

\* a video track without title and language, statistics taken from the container
PlainVideo(order) ==
    Track("Video", order, NoneStr, <<"V_MPEG4/ISO/AVC">>, No, NoneStr, NoneInt, <<"AVC">>,
          General_Duration, General_Duration)

\* an audio track whose title is its commercial name
PlainAudio(order, language, size) ==
    Track("Audio", order, language, <<"A_AC3">>, No, AC3, size, AC3,
          General_Duration, General_Duration)

\* a subtitle track
Text(order, language, codec, forced, title) ==
    Track("Text", order, language, codec, forced, title, NoneInt, NoneStr,
          NoneStr, NoneStr)

\* the title cleanup leaves alone for a subtitle track
KeptTitle(language, forced) ==
    LangName(language) \o (IF forced = Yes THEN BracketForced ELSE <<>>)

General(title, attachments) == [title |-> title, attachments |-> attachments]

Media(general, video, audio, text, menu) ==
    [general_tracks |-> general, video_tracks |-> video, audio_tracks |-> audio,
     text_tracks |-> text, menu_tracks |-> menu]

\* self.filename[:(self.filename.index("[")-1)]
TitleOf(path) == LET filename == Basename(path)
                 IN Slice(filename, 0, Index(filename, "[") - 1)

----------------------------------------------------------------------------
(* MKVFile._filtered_tracks *)

\* Classify with the codec test reduced to S_TEXT/UTF8
ClassifyUTF8Only(track, track_type, languages_to_keep) ==
    IF track.language \in Range(languages_to_keep)
    THEN IF track_type = "Text"
         THEN IF track.codec_id = UTF8
              THEN IF cli_args.sub_forced
                   THEN IF track.forced = Yes
                        THEN IF cli_args.external_subtitles THEN "extract" ELSE "keep"
                        ELSE "remove"
                   ELSE IF cli_args.external_subtitles THEN "extract" ELSE "keep"
              ELSE "remove"
         ELSE "keep"
    ELSE "remove"

\* the list a track is appended to
Classify(track, track_type, languages_to_keep) ==
    IF track.language \in Range(languages_to_keep)
    THEN IF track_type = "Text"
         THEN IF track.codec_id = UTF8 \/ track.codec_id = ASCII
              THEN IF cli_args.sub_forced
                   THEN IF track.forced = Yes
                        THEN IF cli_args.external_subtitles THEN "extract" ELSE "keep"
                        ELSE "remove"
                   ELSE IF cli_args.external_subtitles THEN "extract" ELSE "keep"
              ELSE "remove"
         ELSE "keep"
    ELSE "remove"

RECURSIVE FilterLoop(_, _, _, _)
FilterLoop(tracks, track_type, languages_to_keep, lists) ==
    IF tracks = <<>> THEN lists
    ELSE LET track == Head(tracks)
             list == Classify(track, track_type, languages_to_keep)
         IN FilterLoop(Tail(tracks), track_type, languages_to_keep,
                       [lists EXCEPT ![list] = Append(@, track)])

\* the tracks and the languages the type selects
TracksOf(self, track_type) ==
    IF track_type = "Audio" THEN self.audio_tracks ELSE self.subtitle_tracks

LanguagesOf(track_type) ==
    IF track_type = "Audio" THEN cli_args.language ELSE cli_args.sub_language

\* the body of _filtered_tracks
ComputeFiltered(self, track_type) ==
    FilterLoop(TracksOf(self, track_type), track_type, LanguagesOf(track_type),
               [keep |-> <<>>, remove |-> <<>>, extract |-> <<>>])

\* a cache keyed by the track type alone
CacheKeyByType(self, track_type) == <<1, track_type>>

\* the key under which lru_cache stores a call: the object and the track type
CacheKey(self, track_type) == <<self.id, track_type>>

\* a call of the cached method: the stored value on a hit, the body on a miss
_filtered_tracks(self, track_type) ==
    IF CacheKey(self, track_type) \in DOMAIN lru
    THEN lru[CacheKey(self, track_type)]
    ELSE ComputeFiltered(self, track_type)

\* the cache after the calls for the given track types
Cached(self, types) ==
    LET keys == {CacheKey(self, t) : t \in types}
    IN [k \in (DOMAIN lru) \cup keys |->
            IF k \in DOMAIN lru THEN lru[k]
            ELSE ComputeFiltered(self, k[2])]

----------------------------------------------------------------------------
(* MKVFile.remux_required *)

StreamOrders(tracks) == [i \in 1..Len(tracks) |-> tracks[i].streamorder]

\* a loop over itertools.product(first, second) that stops at the first pair with a > b
AnyGreater(first, second) ==
    \E i \in 1..Len(first) : \E j \in 1..Len(second) : first[i] > second[j]

\* Misaligned without the comparison of audio with subtitles
MisalignedVideoOnly(flag, video, audio, subtitles) ==
    LET m1 == IF AnyGreater(video, audio) THEN TRUE ELSE flag
        m2 == IF ~m1 THEN AnyGreater(video, subtitles) ELSE m1
    IN m2

\* the alignment check on the three stream order lists, from the flag so far
Misaligned(flag, video, audio, subtitles) ==
    LET m1 == IF AnyGreater(video, audio) THEN TRUE ELSE flag
        m2 == IF ~m1 THEN AnyGreater(video, subtitles) ELSE m1
        m3 == IF ~m2 THEN AnyGreater(audio, subtitles) ELSE m2
    IN m3

\* has_something_to_remove without the extract lists
HasSomethingRemoved(a, s) == a.remove # <<>> \/ s.remove # <<>>

\* has_something_to_remove
HasSomethingToRemove(a, s) ==
    a.remove # <<>> \/ s.remove # <<>> \/ a.extract # <<>> \/ s.extract # <<>>

----------------------------------------------------------------------------
(* MKVFile.remove_tracks: construction of the commands *)

RECURSIVE TupleLess(_, _)
\* a < b for two Python tuples of the same length
TupleLess(a, b) ==
    IF a = <<>> THEN FALSE
    ELSE IF a[1] # b[1] THEN a[1] < b[1]
    ELSE TupleLess(Tail(a), Tail(b))

\* the sort key of a kept track: (stream_size is not None, stream_size) for audio,
\* forced for subtitles ("Yes" and "No" compare by their first characters, 89 and 78)
SortKey(track, track_type) ==
    IF track_type = "Audio"
    THEN <<IF track.stream_size # NoneInt THEN 1 ELSE 0, track.stream_size>>
    ELSE <<IF track.forced = Yes THEN 89 ELSE 78>>

RECURSIVE InsertDesc(_, _, _)
InsertDesc(sorted, x, track_type) ==
    IF sorted = <<>> THEN <<x>>
    ELSE IF TupleLess(SortKey(Head(sorted), track_type), SortKey(x, track_type))
         THEN <<x>> \o sorted
         ELSE <<Head(sorted)>> \o InsertDesc(Tail(sorted), x, track_type)

RECURSIVE SortInto(_, _, _)
SortInto(sorted, rest, track_type) ==
    IF rest = <<>> THEN sorted
    ELSE SortInto(InsertDesc(sorted, Head(rest), track_type), Tail(rest), track_type)

\* an ascending sort that is then reversed: equal keys end in reverse order
SortThenReverse(list, track_type) ==
    SortInto(<<>>, [i \in 1..Len(list) |-> list[Len(list) + 1 - i]], track_type)

\* list.sort(key=..., reverse=True): descending, equal keys in their original order
SortReverse(list, track_type) == SortInto(<<>>, list, track_type)

\* internal_keep of one language
InternalKeep(keep, lang) == SelectSeq(keep, LAMBDA track : track.language = lang)

\* sorted_keep
SortedKeep(keep, track_type) ==
    LET langs == LanguagesOf(track_type)
    IN Concat([i \in 1..Len(langs) |->
                  SortReverse(InternalKeep(keep, langs[i]), track_type)])

\* the destination argument of one extracted track
ExtractTarget(path, track, tag) ==
    Str(track.streamorder) \o <<":">>
        \o Slice(path, 0, Index(path, "]") + 1) \o edited
        \o Slice(path, Index(path, "]"), Len(path) - 4)
        \o <<".">> \o track.language \o tag \o <<".srt">>

RECURSIVE ExtractLoopEveryForced(_, _, _, _, _)
\* the loop without the test of forced_sub: every forced track is tagged .forced
ExtractLoopEveryForced(path, extract, forced_sub, sdh_sub, sub_counter) ==
    IF extract = <<>> THEN <<>>
    ELSE LET track == Head(extract)
         IN IF track.forced = Yes
            THEN <<ExtractTarget(path, track, <<".forced">>)>>
                    \o ExtractLoopEveryForced(path, Tail(extract), TRUE, sdh_sub, sub_counter)
            ELSE IF IsSDH(track.title) /\ ~sdh_sub
            THEN <<ExtractTarget(path, track, <<".hi">>)>>
                    \o ExtractLoopEveryForced(path, Tail(extract), forced_sub, TRUE, sub_counter)
            ELSE <<ExtractTarget(path, track,
                        IF sub_counter = 0 THEN <<>> ELSE <<".">> \o Str(sub_counter))>>
                    \o ExtractLoopEveryForced(path, Tail(extract), forced_sub, sdh_sub,
                                              sub_counter + 1)

RECURSIVE ExtractLoop(_, _, _, _, _)
\* the loop over extract with forced_sub, sdh_sub and sub_counter
ExtractLoop(path, extract, forced_sub, sdh_sub, sub_counter) ==
    IF extract = <<>> THEN <<>>
    ELSE LET track == Head(extract)
         IN IF track.forced = Yes /\ ~forced_sub
            THEN <<ExtractTarget(path, track, <<".forced">>)>>
                    \o ExtractLoop(path, Tail(extract), TRUE, sdh_sub, sub_counter)
            ELSE IF IsSDH(track.title) /\ ~sdh_sub
            THEN <<ExtractTarget(path, track, <<".hi">>)>>
                    \o ExtractLoop(path, Tail(extract), forced_sub, TRUE, sub_counter)
            ELSE <<ExtractTarget(path, track,
                        IF sub_counter = 0 THEN <<>> ELSE <<".">> \o Str(sub_counter))>>
                    \o ExtractLoop(path, Tail(extract), forced_sub, sdh_sub, sub_counter + 1)

\* the display name of a subtitle track
DisplayName(track) ==
    track.other_language
        \o (IF track.forced = Yes THEN ParenForced ELSE <<>>)
        \o (IF IsSDH(track.title) THEN ParenSDH ELSE <<>>)

\* the arguments of one retained track with every track flagged default
RetainArgsAllDefault(track, count, track_type) ==
    << <<"--default-track">>,
       Str(track.streamorder) \o <<":">> \o <<"1">>,
       <<"--track-name">>,
       Str(track.streamorder) \o <<":">>
           \o (IF track_type = "Audio" THEN track.commercial_name ELSE DisplayName(track)) >>

\* the arguments of one retained track
RetainArgs(track, count, track_type) ==
    << <<"--default-track">>,
       Str(track.streamorder) \o <<":">> \o (IF count # 0 THEN <<"0">> ELSE <<"1">>),
       <<"--track-name">>,
       Str(track.streamorder) \o <<":">>
           \o (IF track_type = "Audio" THEN track.commercial_name ELSE DisplayName(track)) >>

\* keep_ids
KeepIds(sorted_keep) == [i \in 1..Len(sorted_keep) |-> Str(sorted_keep[i].streamorder)]

\* the include list of a type, or the flag that drops the type
SelectionArgs(keep_ids, track_type) ==
    IF keep_ids # <<>> /\ track_type = "Audio"
    THEN << <<"--audio-tracks">>, Join(<<",">>, keep_ids) >>
    ELSE IF keep_ids # <<>> /\ track_type = "Text"
    THEN << <<"--subtitle-tracks">>, Join(<<",">>, keep_ids) >>
    ELSE IF track_type = "Text" THEN << <<"--no-subtitles">> >>
    ELSE << <<"--no-audio">> >>

\* the arguments one pass of the loop over ("Audio", "Text") appends to command
TypeArgs(self, track_type) ==
    LET sorted_keep == SortedKeep(_filtered_tracks(self, track_type).keep, track_type)
    IN Concat([i \in 1..Len(sorted_keep) |->
                  RetainArgs(sorted_keep[i], i - 1, track_type)])
       \o SelectionArgs(KeepIds(sorted_keep), track_type)

\* the arguments of the loop over the video tracks
VideoArgs(video_tracks) ==
    Concat([i \in 1..Len(video_tracks) |->
        << <<"--track-name">>, Str(video_tracks[i].streamorder) \o <<":">> \o <<" ">>,
           <<"--language">>, Str(video_tracks[i].streamorder) \o <<":">> \o und >>])

\* what the loop over the video tracks appends to self.track_order
VideoOrder(video_tracks) ==
    Concat([i \in 1..Len(video_tracks) |-> Chars(Str(video_tracks[i].streamorder))])

\* self.track_order after remove_tracks
TrackOrder(self) ==
    self.track_order \o VideoOrder(self.video_tracks)
        \o KeepIds(SortedKeep(_filtered_tracks(self, "Audio").keep, "Audio"))
        \o KeepIds(SortedKeep(_filtered_tracks(self, "Text").keep, "Text"))

\* the --track-order argument
TrackOrderArg(track_order) == <<"0", ":">> \o Join(<<",", "0", ":">>, track_order)

\* tmp_file
TmpFile(self) ==
    IF Truthy(cli_args.tmp_dir)
    THEN cli_args.tmp_dir \o <<"/">> \o self.filename \o <<".tmp">>
    ELSE self.path \o <<".tmp">>

\* command at line 474
MergeCommand(self) ==
    << cli_args.mkvmerge, <<"--output">>, TmpFile(self),
       <<"--title">>, TitleOf(self.filename),
       <<"--no-chapters">>, <<"--no-attachments">>, <<"--no-track-tags">>,
       <<"--disable-track-statistics-tags">> >>
        \o VideoArgs(self.video_tracks)
        \o TypeArgs(self, "Audio")
        \o TypeArgs(self, "Text")
        \o << <<"--track-order">>, TrackOrderArg(TrackOrder(self)), self.path >>

\* extract_command at line 476
ExtractCommand(self) ==
    << cli_args.mkvextract, self.path, <<"tracks">> >>
        \o ExtractLoop(self.path, _filtered_tracks(self, "Text").extract, FALSE, FALSE, 0)

----------------------------------------------------------------------------
(* MKVFile.cleanup: construction of the command *)

TrackSelector(track) == <<"track", ":">> \o Str(track.track_id)

CleanVideo(track) ==
    (IF Truthy(track.title)
     THEN << <<"--edit">>, TrackSelector(track), <<"--delete">>, <<"name">> >>
     ELSE <<>>)
    \o (IF Truthy(track.language)
        THEN << <<"--edit">>, TrackSelector(track), <<"--set">>, <<"language=und">> >>
        ELSE <<>>)

CleanAudio(track) ==
    IF track.title # track.commercial_name
    THEN << <<"--edit">>, TrackSelector(track), <<"--set">>,
            <<"name", "=">> \o track.commercial_name >>
    ELSE <<>>

CleanSubtitle(track) ==
    IF track.title # track.other_language
                        \o (IF track.forced = Yes THEN BracketForced ELSE <<>>)
    THEN << <<"--edit">>, TrackSelector(track), <<"--set">>,
            <<"name", "=">> \o DisplayName(track) >>
    ELSE <<>>

CleanGeneral(track, filename) ==
    (IF track.title # TitleOf(filename)
     THEN << <<"--edit">>, <<"info">>, <<"--set">>, <<"title", "=">> \o TitleOf(filename) >>
     ELSE <<>>)
    \o (IF Truthy(track.attachments)
        THEN LET attachment_list == Split(track.attachments, " / ")
             IN Concat([i \in 1..Len(attachment_list) |->
                    << <<"--delete-attachment">>, <<"name", ":">> \o attachment_list[i] >>])
        ELSE <<>>)

\* track_statistics after the loops over the video and audio tracks
TrackStatistics(self) ==
    \/ \E i \in 1..Len(self.video_tracks) :
          /\ self.video_tracks[i].duration_source # General_Duration
          /\ self.video_tracks[i].count_source # General_Duration
    \/ \E i \in 1..Len(self.audio_tracks) :
          /\ self.audio_tracks[i].duration_source # General_Duration
          /\ self.audio_tracks[i].count_source # General_Duration

\* command at line 539
PropeditCommand(self) ==
    << cli_args.mkvpropedit, self.path >>
        \o Concat([i \in 1..Len(self.video_tracks) |-> CleanVideo(self.video_tracks[i])])
        \o Concat([i \in 1..Len(self.audio_tracks) |-> CleanAudio(self.audio_tracks[i])])
        \o Concat([i \in 1..Len(self.subtitle_tracks) |->
                      CleanSubtitle(self.subtitle_tracks[i])])
        \o Concat([i \in 1..Len(self.general_tracks) |->
                      CleanGeneral(self.general_tracks[i], self.filename)])
        \o (IF self.menu_tracks # <<>> THEN << <<"-c">>, <<>> >> ELSE <<>>)
        \o (IF TrackStatistics(self)
            THEN << <<"--delete-track-statistics-tags">> >> ELSE <<>>)

----------------------------------------------------------------------------
(* edit_file *)

\* the ways a call of edit_file can end: whether the tool was started, and the
\* value returned
EditOutcomes ==
    IF cli_args.dry_run
    THEN {[started |-> FALSE, ok |-> FALSE]}
    ELSE {[started |-> TRUE, ok |-> TRUE], [started |-> TRUE, ok |-> FALSE]}

\* the tools started so far, after a call that ends as o
Launch(cmd, o) == IF o.started THEN Append(launched, cmd[1]) ELSE launched

----------------------------------------------------------------------------
(* The runs explored: the options given on the command line and the media     *)
(* files found in the directory.  Each family varies the attributes one part  *)
(* of the program reads and keeps the others fixed.                           *)

SeqsUpTo(S, n) == UNION {[1..k -> S] : k \in 0..n}

RECURSIVE InjectiveSeqs(_, _)
\* the sequences of n different elements of S
InjectiveSeqs(S, n) ==
    IF n = 0 THEN {<<>>}
    ELSE UNION {{Append(q, x) : x \in S \ Range(q)} : q \in InjectiveSeqs(S, n - 1)}

\* argparse with the defaults of main, -l eng -s eng
PlainArgs ==
    [mediainfo |-> MEDIAINFO_DEFAULT, mkvextract |-> MKVEXTRACT_DEFAULT,
     mkvmerge |-> MKVMERGE_DEFAULT, mkvpropedit |-> MKVPROPEDIT_DEFAULT,
     tmp_dir |-> NoneStr, language |-> <<eng>>, sub_language |-> <<eng>>,
     sub_forced |-> FALSE, min_age |-> MIN_AGE_DEFAULT,
     external_subtitles |-> FALSE, dry_run |-> FALSE]

\* a general track whose title is the title derived from the file name
PlainGeneral(i) == <<General(TitleOf(PathOf(i)), NoneStr)>>

\* a file from the stream orders of its video, audio and subtitle tracks; all
\* tracks are English and carry the titles cleanup expects
OrderedMedia(i, video, audio, text) ==
    Media(PlainGeneral(i),
          [k \in 1..Len(video) |-> PlainVideo(video[k])],
          [k \in 1..Len(audio) |-> PlainAudio(audio[k], eng, 5)],
          [k \in 1..Len(text) |-> Text(text[k], eng, UTF8, No, KeptTitle(eng, No))],
          <<>>)

StreamOrderValues == 0..4

\* every assignment of different stream orders to at most MaxGroup tracks per type
OrderMedia(i) ==
    UNION {UNION {UNION {
        {OrderedMedia(i, SubSeq(q, 1, v), SubSeq(q, v + 1, v + a),
                      SubSeq(q, v + a + 1, v + a + t))
            : q \in InjectiveSeqs(StreamOrderValues, v + a + t)}
        : t \in 0..MaxGroup} : a \in 0..MaxGroup} : v \in 0..MaxGroup}

\* files with more tracks, and with stream orders of two digits
WideMedia(i) ==
    {OrderedMedia(i, o[1], o[2], o[3]) :
        o \in {<< <<0, 1>>, <<2, 3>>, <<5, 4>> >>,
               << <<0, 1>>, <<3, 4>>, <<2, 6>> >>,
               << <<0>>, <<10, 9>>, <<11>> >>,
               << <<10>>, <<11>>, <<12>> >>,
               << <<9, 10>>, <<11>>, <<>> >>,
               << <<12>>, <<3>>, <<4>> >>}}

AudioLanguages == {eng, fra, ger}
StreamSizes == {NoneInt, 5, 8}

\* one video track, at most MaxGroup audio tracks of every language and size,
\* and a German image subtitle, which is removed
AudioMedia(i) ==
    {Media(PlainGeneral(i), <<PlainVideo(0)>>,
           [k \in 1..Len(q) |-> PlainAudio(k, q[k][1], q[k][2])],
           <<Text(Len(q) + 1, ger, PGS, No, NoneStr)>>, <<>>)
        : q \in SeqsUpTo(AudioLanguages \X StreamSizes, MaxGroup)}

\* English subtitles of every codec, French text subtitles, forced or not
SubtitleKinds == ({eng} \X {UTF8, ASCII, PGS} \X {Yes, No}) \cup ({fra} \X {UTF8} \X {Yes, No})

\* one video track, an English audio track, a German one, which is removed, and
\* at most MaxGroup subtitle tracks
SubtitleMedia(i) ==
    {Media(PlainGeneral(i), <<PlainVideo(0)>>,
           <<PlainAudio(1, eng, 5), PlainAudio(2, ger, 8)>>,
           [k \in 1..Len(q) |->
               Text(k + 2, q[k][1], q[k][2], q[k][3], KeptTitle(q[k][1], q[k][3]))],
           <<>>)
        : q \in SeqsUpTo(SubtitleKinds, MaxGroup)}

\* at most MaxExtract English text subtitle tracks, forced or not, with the
\* titles None, "English (SDH)" and "English"
ExtractMedia(i) ==
    {Media(PlainGeneral(i), <<PlainVideo(0)>>, <<PlainAudio(1, eng, 5)>>,
           [k \in 1..Len(q) |-> Text(k + 1, eng, UTF8, q[k][1], q[k][2])], <<>>)
        : q \in SeqsUpTo({Yes, No} \X {NoneStr, English \o ParenSDH, English}, MaxExtract)}

SubtitleTitles ==
    {NoneStr, English, English \o ParenForced, English \o BracketForced,
     English \o ParenSDH, English \o ParenForced \o ParenSDH}

\* aligned files with nothing to remove: every title and language of the video
\* and the subtitle track
TitleMedia(i) ==
    {Media(PlainGeneral(i),
           <<Track("Video", 0, x[2], <<"V_MPEG4/ISO/AVC">>, No, x[1], NoneInt, <<"AVC">>,
                   General_Duration, General_Duration)>>,
           <<PlainAudio(1, eng, 5)>>,
           <<Text(2, eng, UTF8, x[3], x[4])>>, <<>>)
        : x \in {NoneStr, Other} \X {NoneStr, und, eng} \X {Yes, No} \X SubtitleTitles}

Sources == {General_Duration, NoneStr}

\* aligned files with nothing to remove: every audio title, container title,
\* attachment list, chapter track and statistics source
ContainerMedia(i) ==
    {Media(<<General(x[2], x[3])>>,
           <<Track("Video", 0, NoneStr, <<"V_MPEG4/ISO/AVC">>, No, NoneStr, NoneInt,
                   <<"AVC">>, x[5][1], x[5][2])>>,
           <<Track("Audio", 1, eng, <<"A_AC3">>, No, x[1], 5, AC3, x[6][1], x[6][2])>>,
           <<Text(2, eng, UTF8, No, English)>>, x[4])
        : x \in {AC3, NoneStr, Other} \X {TitleOf(PathOf(i)), NoneStr, Other}
                 \X {NoneStr, <<"a.ttf">>, <<"a.ttf", " / ", "b.ttf">>}
                 \X {<<>>, <<[chapters |-> 1]>>}
                 \X (Sources \X Sources)
                 \X {<<General_Duration, General_Duration>>, <<NoneStr, NoneStr>>}}

\* the files of a directory with several files: one that needs a remux, one
\* that needs a cleanup edit, one that needs nothing
RunMedia(i) ==
    {Media(PlainGeneral(i), <<PlainVideo(0)>>,
           <<PlainAudio(1, eng, 5), PlainAudio(2, ger, 8)>>, <<>>, <<>>),
     Media(<<General(Other, NoneStr)>>, <<PlainVideo(0)>>,
           <<PlainAudio(1, eng, 5)>>, <<>>, <<>>),
     Media(PlainGeneral(i), <<PlainVideo(0)>>, <<PlainAudio(1, eng, 5)>>, <<>>, <<>>)}

RECURSIVE RunMediaSeqs(_)
RunMediaSeqs(n) ==
    IF n = 0 THEN {<<>>}
    ELSE {Append(q, m) : q \in RunMediaSeqs(n - 1), m \in RunMedia(n)}

\* runs over files old enough for every min_age
TrackRuns ==
    {[args |-> PlainArgs, media |-> <<m>>]
        : m \in OrderMedia(1) \cup WideMedia(1) \cup TitleMedia(1) \cup ContainerMedia(1)}
    \cup {[args |-> [PlainArgs EXCEPT !.language = l], media |-> <<m>>]
        : l \in {<<eng>>, <<fra, eng>>}, m \in AudioMedia(1)}
    \cup {[args |-> [PlainArgs EXCEPT !.sub_language = l, !.sub_forced = f,
                                      !.external_subtitles = e],
           media |-> <<m>>]
        : l \in {<<eng>>, <<fra, eng>>}, f \in BOOLEAN, e \in BOOLEAN,
          m \in SubtitleMedia(1)}
    \cup {[args |-> [PlainArgs EXCEPT !.external_subtitles = TRUE], media |-> <<m>>]
        : m \in ExtractMedia(1)}
    \cup {[args |-> [PlainArgs EXCEPT !.dry_run = d, !.tmp_dir = t], media |-> q]
        : d \in BOOLEAN, t \in {NoneStr, <<"/", "t">>}, q \in RunMediaSeqs(MaxFiles)}

\* the seconds since a file was last modified, around the limits of --min-age
Ages == {3599, 3600, 7200}

\* runs with --min-age over files that need nothing but the rename
AgeRuns ==
    {[args |-> [PlainArgs EXCEPT !.min_age = h],
      media |-> [i \in 1..MaxFiles |->
                    Media(PlainGeneral(i), <<PlainVideo(0)>>, <<PlainAudio(1, eng, 5)>>,
                          <<>>, <<>>)],
      ages |-> a]
        : h \in {1, 2}, a \in [1..MaxFiles -> Ages]}

Runs ==
    {[args |-> r.args, media |-> r.media, ages |-> [i \in 1..Len(r.media) |-> 7200]]
        : r \in TrackRuns}
    \cup AgeRuns

----------------------------------------------------------------------------
(* State *)

\* MKVFile.__init__
NewMKVFile(i, media) ==
    [id |-> i, path |-> PathOf(i), filename |-> Basename(PathOf(i)),
     general_tracks |-> media.general_tracks,
     video_tracks |-> media.video_tracks,
     audio_tracks |-> media.audio_tracks,
     subtitle_tracks |-> media.text_tracks,
     menu_tracks |-> media.menu_tracks,
     streamorder_video |-> <<>>, streamorder_audio |-> <<>>,
     streamorder_subtitles |-> <<>>, track_order |-> <<>>,
     streams_misaligned |-> FALSE]

\* no object constructed yet
NoMKVFile == NewMKVFile(0, Media(<<>>, <<>>, <<>>, <<>>, <<>>))

Init ==
    \E run \in Runs :
        /\ cli_args = run.args
        /\ disk = [i \in 1..Len(run.media) |->
                      [media |-> run.media[i], org |-> TRUE, tmp |-> FALSE,
                       edited |-> FALSE, age |-> run.ages[i]]]
        /\ pc = "start"
        /\ movie_list = <<>>
        /\ mkv = NoMKVFile
        /\ lru = <<>>
        /\ results = <<>>
        /\ plans = <<>>
        /\ command = <<>>
        /\ extract_command = <<>>
        /\ launched = <<>>
        /\ processed = {}

----------------------------------------------------------------------------
(* main *)

\* the marker looked for at the start of the path only
IsEditedPrefix(path) == SubSeq(path, 1, Len(edited)) = edited

\* "[edited]" in path
IsEdited(path) == Contains(path, edited)

\* the paths under which file i is on disk, in sorted order: the original,
\* the temporary output of a remux, the finished file
PathsOnDisk(i) ==
    (IF disk[i].org THEN <<PathOf(i)>> ELSE <<>>)
        \o (IF disk[i].tmp THEN <<TmpFile(NewMKVFile(i, disk[i].media))>> ELSE <<>>)
        \o (IF disk[i].edited THEN <<EditFile(PathOf(i))>> ELSE <<>>)

\* os.stat(path).st_mtime <= time.time() - cli_args.min_age * 3600, with the
\* age of a file the seconds between its modification and the call
MeetsAge(i) == disk[i].age >= cli_args.min_age * 3600

\* the files walk_directory appends to movie_list: a file is listed under each
\* of its paths that ends in .mkv, does not contain "[edited]" and is old enough
Listed ==
    LET found == Concat([i \in 1..Len(disk) |->
                    [k \in 1..Len(PathsOnDisk(i)) |->
                        [id |-> i, path |-> PathsOnDisk(i)[k]]]])
        kept == SelectSeq(found, LAMBDA f :
                    /\ EndsWith(Lower(f.path), mkv_suffix)
                    /\ ~IsEdited(f.path)
                    /\ MeetsAge(f.id))
    IN [k \in 1..Len(kept) |-> kept[k].id]

\* walk_directory over the directory of the files
walk_directory ==
    /\ pc = "start"
    /\ movie_list' = Listed
    /\ pc' = "loop"
    /\ UNCHANGED <<cli_args, disk, mkv, lru, results, plans, command, extract_command,
                   launched, processed>>

\* line 587: the next file of the list is parsed into a new MKVFile
construct ==
    /\ pc = "loop"
    /\ movie_list # <<>>
    /\ mkv' = NewMKVFile(Head(movie_list), disk[Head(movie_list)].media)
    /\ movie_list' = Tail(movie_list)
    /\ results' = <<>>
    /\ plans' = <<>>
    /\ command' = <<>>
    /\ extract_command' = <<>>
    /\ pc' = "constructed"
    /\ UNCHANGED <<cli_args, disk, lru, launched, processed>>

\* the loops of main are exhausted
finish ==
    /\ pc = "loop"
    /\ movie_list = <<>>
    /\ pc' = "done"
    /\ UNCHANGED <<cli_args, disk, movie_list, mkv, lru, results, plans, command,
                   extract_command, launched, processed>>

\* the program is started again with the same options on the directory as the
\* last run left it; the files are as old as before
rerun ==
    /\ pc \in {"done", "raised"}
    /\ pc' = "start"
    /\ movie_list' = <<>>
    /\ mkv' = NoMKVFile
    /\ lru' = <<>>
    /\ results' = <<>>
    /\ plans' = <<>>
    /\ command' = <<>>
    /\ extract_command' = <<>>
    /\ launched' = <<>>
    /\ processed' = {}
    /\ UNCHANGED <<cli_args, disk>>

\* the object after remux_required
AfterRemuxRequired(self) ==
    LET video == self.streamorder_video \o StreamOrders(self.video_tracks)
        audio == self.streamorder_audio \o StreamOrders(self.audio_tracks)
        subtitles == self.streamorder_subtitles \o StreamOrders(self.subtitle_tracks)
    IN [self EXCEPT !.streamorder_video = video,
                    !.streamorder_audio = audio,
                    !.streamorder_subtitles = subtitles,
                    !.streams_misaligned =
                        Misaligned(self.streams_misaligned, video, audio, subtitles)]

\* the value remux_required returns
RemuxRequired(self) ==
    LET has_something_to_remove ==
            HasSomethingToRemove(_filtered_tracks(self, "Audio"),
                                 _filtered_tracks(self, "Text"))
    IN IF has_something_to_remove \/ AfterRemuxRequired(self).streams_misaligned
       THEN TRUE ELSE FALSE

\* an evaluation of the property remux_required: the one of main (line 588),
\* or a second one on the same object
remux_required ==
    /\ \/ pc = "constructed"
       \/ pc = "decided" /\ Len(results) = 1
    /\ results' = Append(results, RemuxRequired(mkv))
    /\ mkv' = AfterRemuxRequired(mkv)
    /\ lru' = Cached(mkv, {"Audio", "Text"})
    /\ pc' = "decided"
    /\ UNCHANGED <<cli_args, disk, movie_list, plans, command, extract_command,
                   launched, processed>>

\* remove_tracks up to line 474: the one call of main (line 589) after its one
\* evaluation of remux_required, or a second construction on the same object
remove_tracks ==
    /\ \/ pc = "decided" /\ Len(results) = 1 /\ results[1]
       \/ pc = "built" /\ Len(plans) = 1
    /\ command' = MergeCommand(mkv)
    /\ extract_command' = ExtractCommand(mkv)
    /\ mkv' = [mkv EXCEPT !.track_order = TrackOrder(mkv)]
    /\ lru' = Cached(mkv, {"Audio", "Text"})
    /\ plans' = Append(plans, [command |-> command', extract_command |-> extract_command',
                               track_order |-> mkv'.track_order])
    /\ processed' = processed \cup {mkv.id}
    /\ pc' = "built"
    /\ UNCHANGED <<cli_args, disk, movie_list, results, launched>>

\* lines 476-477: the extraction, whose result is ignored
extract_tracks ==
    /\ pc = "built"
    /\ Len(plans) = 1
    /\ IF Len(extract_command) >= 4
       THEN \E o \in EditOutcomes : launched' = Launch(extract_command, o)
       ELSE launched' = launched
    /\ pc' = "merge"
    /\ UNCHANGED <<cli_args, disk, movie_list, mkv, lru, results, plans, command,
                   extract_command, processed>>

\* lines 479-484: the remux.  A started mkvmerge that succeeds has written
\* tmp_file; one that fails may or may not have written it.
merge_tracks ==
    /\ pc = "merge"
    /\ \E o \in EditOutcomes : \E written \in BOOLEAN :
        /\ o.started /\ o.ok => written
        /\ ~o.started => ~written
        /\ launched' = Launch(command, o)
        /\ IF o.ok
           THEN /\ disk' = [disk EXCEPT ![mkv.id].tmp = TRUE]
                /\ pc' = "replace"
           ELSE IF disk[mkv.id].tmp \/ written
           THEN /\ disk' = [disk EXCEPT ![mkv.id].tmp = FALSE]
                /\ pc' = "raised"
           ELSE /\ disk' = disk
                /\ pc' = "loop"
    /\ UNCHANGED <<cli_args, movie_list, mkv, lru, results, plans, command,
                   extract_command, processed>>

\* replace_file(tmp_file, self.path), line 207: os.unlink(org_file)
replace_unlink ==
    /\ pc = "replace"
    /\ \/ /\ disk' = [disk EXCEPT ![mkv.id].org = FALSE]
          /\ pc' = "rename"
       \/ /\ disk' = disk
          /\ pc' = "except"
    /\ UNCHANGED <<cli_args, movie_list, mkv, lru, results, plans, command,
                   extract_command, launched, processed>>

\* replace_file(tmp_file, self.path), line 209: os.rename(tmp_file, edit_file)
replace_rename ==
    /\ pc = "rename"
    /\ \/ /\ disk' = [disk EXCEPT ![mkv.id].tmp = FALSE, ![mkv.id].edited = TRUE]
          /\ pc' = "loop"
       \/ /\ disk' = disk
          /\ pc' = "except"
    /\ UNCHANGED <<cli_args, movie_list, mkv, lru, results, plans, command,
                   extract_command, launched, processed>>

\* replace_file(tmp_file, self.path), lines 212-216: os.unlink(tmp_file)
replace_except ==
    /\ pc = "except"
    /\ disk' = [disk EXCEPT ![mkv.id].tmp = FALSE]
    /\ pc' = "loop"
    /\ UNCHANGED <<cli_args, movie_list, mkv, lru, results, plans, command,
                   extract_command, launched, processed>>

\* cleanup up to line 537, called by main (line 591)
cleanup ==
    /\ pc = "decided"
    /\ Len(results) = 1
    /\ ~results[1]
    /\ command' = PropeditCommand(mkv)
    /\ processed' = processed \cup {mkv.id}
    /\ pc' = "cleanup"
    /\ UNCHANGED <<cli_args, disk, movie_list, mkv, lru, results, plans,
                   extract_command, launched>>

\* cleanup, lines 539-547: the edit, if there is one
cleanup_edit ==
    /\ pc = "cleanup"
    /\ IF Len(command) >= 3
       THEN \E o \in EditOutcomes :
               /\ launched' = Launch(command, o)
               /\ pc' = IF o.ok THEN "mark" ELSE "loop"
       ELSE /\ launched' = launched
            /\ pc' = "mark"
    /\ UNCHANGED <<cli_args, disk, movie_list, mkv, lru, results, plans, command,
                   extract_command, processed>>

\* replace_file(self.path, self.path), lines 202-203 and 212-216:
\* os.rename(tmp_file, edit_file), which may fail
replace_inplace ==
    /\ pc = "mark"
    /\ \/ disk' = [disk EXCEPT ![mkv.id].org = FALSE, ![mkv.id].edited = TRUE]
       \/ disk' = disk
    /\ pc' = "loop"
    /\ UNCHANGED <<cli_args, movie_list, mkv, lru, results, plans, command,
                   extract_command, launched, processed>>

Next ==
    \/ walk_directory
    \/ construct
    \/ finish
    \/ rerun
    \/ remux_required
    \/ remove_tracks
    \/ extract_tracks
    \/ merge_tracks
    \/ replace_unlink
    \/ replace_rename
    \/ replace_except
    \/ cleanup
    \/ cleanup_edit
    \/ replace_inplace

Spec == Init /\ [][Next]_vars

----------------------------------------------------------------------------
(* Properties *)

Constructed == mkv.id # 0

Count(list, x) == Cardinality({i \in 1..Len(list) : list[i] = x})

\* the lists _filtered_tracks returns for the current object
Selected(track_type) == _filtered_tracks(mkv, track_type)

\* C1: for Audio and for Text, every track of the input is in exactly one of
\* keep, remove and extract, and the three lists hold nothing but input tracks.
C1_Partition ==
    Constructed =>
        \A track_type \in {"Audio", "Text"} :
            LET input == TracksOf(mkv, track_type)
                lists == Selected(track_type)
                all == lists.keep \o lists.remove \o lists.extract
            IN /\ \A i \in 1..Len(input) : Count(all, input[i]) = 1
               /\ Range(all) \subseteq Range(input)
               /\ Len(all) = Len(input)

\* C1 witness: remux_required has selected the tracks of a file whose subtitles
\* go to two lists and whose audio track is kept
C1_Witness ==
    /\ pc = "decided"
    /\ Selected("Text").extract # <<>>
    /\ Selected("Text").remove # <<>>
    /\ Selected("Audio").keep # <<>>

\* the list the subtitle rule assigns to a track
SubtitleRule(track) ==
    IF track.language \notin Range(cli_args.sub_language) THEN "remove"
    ELSE IF track.codec_id \notin {UTF8, ASCII} THEN "remove"
    ELSE IF cli_args.sub_forced /\ track.forced # Yes THEN "remove"
    ELSE IF cli_args.external_subtitles THEN "extract"
    ELSE "keep"

\* C2: a subtitle track is removed if its language is not in the keep list, or
\* its codec is not S_TEXT/UTF8 or S_TEXT/ASCII, or sub_forced is set and it is
\* not forced; otherwise it is extracted when external_subtitles is set and kept
\* when it is not.  extract is non-empty only with external_subtitles, and with
\* external_subtitles keep is empty.
C2_SubtitleRule ==
    Constructed =>
        LET lists == Selected("Text")
        IN /\ \A i \in 1..Len(mkv.subtitle_tracks) :
                 mkv.subtitle_tracks[i] \in Range(lists[SubtitleRule(mkv.subtitle_tracks[i])])
           /\ lists.extract # <<>> => cli_args.external_subtitles
           /\ cli_args.external_subtitles => lists.keep = <<>>

\* C2 witness: with sub_forced set, a forced and an unforced English text
\* subtitle have been selected
C2_Witness ==
    /\ pc = "decided"
    /\ cli_args.sub_forced
    /\ \E i, j \in 1..Len(mkv.subtitle_tracks) :
          /\ mkv.subtitle_tracks[i].forced = Yes
          /\ mkv.subtitle_tracks[j].forced = No
          /\ mkv.subtitle_tracks[j].codec_id = ASCII
          /\ mkv.subtitle_tracks[i] \in Range(Selected("Text").keep)
          /\ mkv.subtitle_tracks[j] \in Range(Selected("Text").remove)

\* some stream order of the first group is greater than one of the second
Crosses(first, second) ==
    \E i \in 1..Len(first) : \E j \in 1..Len(second) :
        first[i].streamorder > second[j].streamorder

\* a video track after an audio or subtitle track, or an audio track after a
\* subtitle track
StreamsCross ==
    \/ Crosses(mkv.video_tracks, mkv.audio_tracks)
    \/ Crosses(mkv.video_tracks, mkv.subtitle_tracks)
    \/ Crosses(mkv.audio_tracks, mkv.subtitle_tracks)

\* C3: remux_required returns true exactly if a remove or extract list is
\* non-empty or the streams are misaligned; main builds the remux after true and
\* the cleanup after false.
C3_RemuxRequired ==
    /\ \A i \in 1..Len(results) :
          results[i] <=> \/ Selected("Audio").remove # <<>>
                         \/ Selected("Text").remove # <<>>
                         \/ Selected("Audio").extract # <<>>
                         \/ Selected("Text").extract # <<>>
                         \/ StreamsCross
    /\ pc \in {"built", "merge", "replace", "rename", "except", "raised"} => results[1]
    /\ pc \in {"cleanup", "mark"} => ~results[1]

\* C3 witness: the cleanup of an aligned file with nothing to remove or extract
C3_Witness ==
    /\ pc = "cleanup"
    /\ ~StreamsCross
    /\ Len(mkv.audio_tracks) > 1
    /\ Len(mkv.subtitle_tracks) > 1

\* C4: streams_misaligned is set exactly if a video stream order is greater
\* than an audio or subtitle stream order or an audio stream order is greater
\* than a subtitle stream order, whatever the order inside a group.
C4_Misaligned ==
    Len(results) >= 1 => (mkv.streams_misaligned <=> StreamsCross)

\* C4 witness: audio [3, 4] with subtitles [2, 6] has been found misaligned
C4_Witness ==
    /\ pc = "decided"
    /\ mkv.streamorder_audio = <<3, 4>>
    /\ mkv.streamorder_subtitles = <<2, 6>>
    /\ ~Crosses(mkv.video_tracks, mkv.audio_tracks)
    /\ ~Crosses(mkv.video_tracks, mkv.subtitle_tracks)
    /\ mkv.streams_misaligned


\* the ordered keep list of remove_tracks
Ordered(track_type) == SortedKeep(Selected(track_type).keep, track_type)

\* the position of x in list
Position(list, x) == CHOOSE i \in 1..Len(list) : list[i] = x

\* C5: the ordered keep list is a permutation of the keep list, grouped by
\* language in the order of the policy list; inside a language audio tracks are
\* in descending stream_size order with None last and subtitle tracks are forced
\* first; tracks with equal keys keep their original relative order.
C5_OrderedKeep ==
    Constructed =>
        \A track_type \in {"Audio", "Text"} :
            LET keep == Selected(track_type).keep
                sorted_keep == Ordered(track_type)
                langs == LanguagesOf(track_type)
                SameKey(a, b) == IF track_type = "Audio"
                                 THEN a.stream_size = b.stream_size
                                 ELSE a.forced = b.forced
            IN /\ Len(sorted_keep) = Len(keep)
               /\ \A i \in 1..Len(keep) : Count(sorted_keep, keep[i]) = 1
               /\ \A i, j \in 1..Len(sorted_keep) : i < j =>
                     LET a == sorted_keep[i]
                         b == sorted_keep[j]
                     IN /\ Position(langs, a.language) <= Position(langs, b.language)
                        /\ a.language = b.language /\ track_type = "Audio" =>
                              /\ a.stream_size = NoneInt => b.stream_size = NoneInt
                              /\ b.stream_size # NoneInt => a.stream_size >= b.stream_size
                        /\ a.language = b.language /\ track_type = "Text" =>
                              ~(a.forced # Yes /\ b.forced = Yes)
                        /\ a.language = b.language /\ SameKey(a, b) =>
                              Position(keep, a) < Position(keep, b)

\* C5 witness: remove_tracks has put the larger of two kept audio tracks of one
\* language first, against the order in which they were selected
C5_Witness ==
    /\ pc = "built"
    /\ Len(Ordered("Audio")) = 2
    /\ Ordered("Audio")[1].language = Ordered("Audio")[2].language
    /\ Ordered("Audio") # Selected("Audio").keep
    /\ mkv.track_order = <<<<"0">>>> \o KeepIds(Ordered("Audio"))

\* the entries the track order is to have: the video stream orders, then the
\* ordered audio keep list, then the ordered subtitle keep list
ExpectedTrackOrder ==
    [i \in 1..Len(mkv.video_tracks) |-> Str(mkv.video_tracks[i].streamorder)]
        \o KeepIds(Ordered("Audio")) \o KeepIds(Ordered("Text"))

\* C6: after remove_tracks the track order has one unmodified entry per video
\* track, in original order, then the ordered audio keep list, then the ordered
\* subtitle keep list, and the --track-order argument is 0:<order>,0:<order>,...
\* of these entries, for stream orders of any number of digits.
C6_TrackOrder ==
    pc = "built" /\ Len(plans) = 1 =>
        /\ mkv.track_order = ExpectedTrackOrder
        /\ command[Len(command) - 1] = TrackOrderArg(ExpectedTrackOrder)

\* the first forced track of the extract list
FirstForced(extract, i) ==
    extract[i].forced = Yes /\ \A j \in 1..(i - 1) : extract[j].forced # Yes

\* a track with an SDH title that is not the first forced track
SDHCandidate(extract, i) == ~FirstForced(extract, i) /\ IsSDH(extract[i].title)

\* the first such track
FirstSDH(extract, i) ==
    SDHCandidate(extract, i) /\ \A j \in 1..(i - 1) : ~SDHCandidate(extract, j)

\* the suffix the naming rule gives the i-th track of the extract list
Suffix(extract, i) ==
    IF FirstForced(extract, i) THEN <<".forced">>
    ELSE IF FirstSDH(extract, i) THEN <<".hi">>
    ELSE LET earlier == Cardinality({j \in 1..(i - 1) :
                            ~FirstForced(extract, j) /\ ~FirstSDH(extract, j)})
         IN IF earlier = 0 THEN <<>> ELSE <<".">> \o Str(earlier)

\* C7: in the order of the extract list the first forced track is named
\* .forced, the first other track with an SDH title .hi, and every other track
\* gets the counter suffix: none, .1, .2, ...
C7_ExtractNames ==
    pc = "built" =>
        LET extract == Selected("Text").extract
        IN /\ Len(extract_command) = 3 + Len(extract)
           /\ \A i \in 1..Len(extract) :
                 extract_command[3 + i] =
                     ExtractTarget(mkv.path, extract[i], Suffix(extract, i))

\* C7 witness: a forced track, a track titled "English (SDH)" and a plain track
\* have been named .forced, .hi and without suffix
C7_Witness ==
    /\ pc = "built"
    /\ LET extract == Selected("Text").extract
       IN /\ Len(extract) = 3
          /\ extract[1].forced = Yes
          /\ extract[2].forced = No /\ extract[2].title = English \o ParenSDH
          /\ extract[3].forced = No /\ extract[3].title = English
          /\ extract_command[4] = ExtractTarget(mkv.path, extract[1], <<".forced">>)
          /\ extract_command[5] = ExtractTarget(mkv.path, extract[2], <<".hi">>)
          /\ extract_command[6] = ExtractTarget(mkv.path, extract[3], <<>>)

\* the file is as cleanup would leave it: no video title, video language und
\* or absent, audio titles the commercial names, subtitle titles the display
\* names, the container title the derived title, no attachments, no chapters,
\* all statistics taken from the container
AlreadyClean ==
    /\ \A i \in 1..Len(mkv.video_tracks) :
          /\ ~Truthy(mkv.video_tracks[i].title)
          /\ mkv.video_tracks[i].language \in {und, NoneStr}
          /\ mkv.video_tracks[i].duration_source = General_Duration
          /\ mkv.video_tracks[i].count_source = General_Duration
    /\ \A i \in 1..Len(mkv.audio_tracks) :
          /\ mkv.audio_tracks[i].title = mkv.audio_tracks[i].commercial_name
          /\ mkv.audio_tracks[i].duration_source = General_Duration
          /\ mkv.audio_tracks[i].count_source = General_Duration
    /\ \A i \in 1..Len(mkv.subtitle_tracks) :
          mkv.subtitle_tracks[i].title = DisplayName(mkv.subtitle_tracks[i])
    /\ \A i \in 1..Len(mkv.general_tracks) :
          /\ mkv.general_tracks[i].title = TitleOf(mkv.filename)
          /\ ~Truthy(mkv.general_tracks[i].attachments)
    /\ mkv.menu_tracks = <<>>

\* C8: the cleanup of a file that is already clean schedules no edit: the
\* command is the tool and the file path, and mkvpropedit is not started.
C8_CleanupNoOp ==
    AlreadyClean =>
        /\ pc = "cleanup" => command = <<cli_args.mkvpropedit, mkv.path>>
        /\ pc = "mark" /\ Len(disk) = 1 => launched = <<>>

\* C9: a second evaluation of remux_required returns what the first returned,
\* and a second construction by remove_tracks gives the commands and the track
\* order of the first.
C9_Idempotent ==
    /\ Len(results) = 2 => results[2] = results[1]
    /\ Len(plans) = 2 => plans[2] = plans[1]

\* the files a run has to process and has not processed: present under a path
\* without the marker, old enough, and not handed to remove_tracks or cleanup
Remaining ==
    {i \in 1..Len(disk) :
        disk[i].org /\ ~IsEdited(PathOf(i)) /\ MeetsAge(i) /\ i \notin processed}

\* C10: when the remux of a file fails the original is still there under its
\* name, the temporary output is gone, and the run ends only after main has
\* processed every file of the directory it has to process.
C10_FailureIsLocal ==
    /\ pc = "raised" =>
          /\ disk[mkv.id].org
          /\ ~disk[mkv.id].tmp
          /\ ~disk[mkv.id].edited
    /\ pc \in {"done", "raised"} => Remaining = {}

\* a file is being processed: between the construction of its MKVFile and the
\* return to the loop of main
Processing ==
    pc \in {"constructed", "decided", "built", "merge", "replace", "rename", "except",
            "cleanup", "mark", "raised"}

\* C11: the name of a finished file contains "[edited]"; walk_directory, called
\* in any state of any run, leaves every finished file out, so no finished file
\* is processed again; and it lists every file whose path is without the marker
\* and which is old enough, so a run that ends has processed all of them.
C11_NoReprocessing ==
    /\ \A i \in 1..Len(disk) :
          disk[i].edited =>
              /\ IsEdited(EditFile(PathOf(i)))
              /\ i \notin Range(Listed)
              /\ i \notin Range(movie_list)
    /\ Processing => ~disk[mkv.id].edited
    /\ \A i \in 1..Len(disk) :
          disk[i].org /\ ~IsEdited(PathOf(i)) /\ MeetsAge(i) => i \in Range(Listed)
    /\ pc = "done" => Remaining = {}

\* C11 witness: in a later run the first file, finished by a remux in an
\* earlier run, has been left out and the second file is processed again
C11_Witness ==
    /\ pc = "constructed"
    /\ mkv.id = 2
    /\ processed = {}
    /\ disk[1].edited
    /\ Len(disk[1].media.audio_tracks) = 2
    /\ disk[2].org

\* how often the command flags the track with the given value of --default-track
FlagCount(track, value) ==
    Cardinality({k \in 1..(Len(command) - 1) :
        /\ command[k] = <<"--default-track">>
        /\ command[k + 1] = Str(track.streamorder) \o <<":", value>>})

\* the include list and the drop-all flag of a type
IncludeFlag(track_type) ==
    IF track_type = "Audio" THEN <<"--audio-tracks">> ELSE <<"--subtitle-tracks">>

DropFlag(track_type) ==
    IF track_type = "Audio" THEN <<"--no-audio">> ELSE <<"--no-subtitles">>

\* C12: in the remux command, of the kept tracks of a type the one at index 0
\* of the ordered keep list is flagged default once and never non-default,
\* every other kept track is flagged non-default once and never default, and no
\* other track of the type is flagged; a type with an empty keep list has its
\* drop-all flag and no include list.
C12_DefaultTrack ==
    pc = "built" =>
        \A track_type \in {"Audio", "Text"} :
            LET tracks == TracksOf(mkv, track_type)
                keep == Selected(track_type).keep
                sorted_keep == Ordered(track_type)
            IN /\ \A i \in 1..Len(tracks) :
                     LET track == tracks[i]
                     IN IF track \notin Range(keep)
                        THEN FlagCount(track, "1") = 0 /\ FlagCount(track, "0") = 0
                        ELSE IF track = sorted_keep[1]
                        THEN FlagCount(track, "1") = 1 /\ FlagCount(track, "0") = 0
                        ELSE FlagCount(track, "1") = 0 /\ FlagCount(track, "0") = 1
               /\ keep = <<>> =>
                     /\ DropFlag(track_type) \in Range(command)
                     /\ IncludeFlag(track_type) \notin Range(command)

\* C12 witness: of two kept audio tracks the one selected second is first in
\* the ordered keep list and is the one flagged default, and the command drops
\* all subtitles
C12_Witness ==
    /\ pc = "built"
    /\ Len(Selected("Audio").keep) = 2
    /\ Ordered("Audio")[1] = Selected("Audio").keep[2]
    /\ FlagCount(Selected("Audio").keep[2], "1") = 1
    /\ FlagCount(Selected("Audio").keep[1], "0") = 1
    /\ Selected("Text").keep = <<>>
    /\ <<"--no-subtitles">> \in Range(command)

\* C13: whatever step of replace_file fails, every file is on disk under at
\* least one of its names: the original path, the temporary path or the
\* "[edited]" path.
C13_MediaSurvives ==
    \A i \in 1..Len(disk) : disk[i].org \/ disk[i].tmp \/ disk[i].edited

\* C14: with dry_run set no tool is started and every file stays under its
\* original path, with no temporary and no "[edited]" file beside it, on the
\* remux path and on the cleanup path with or without scheduled edits.
C14_DryRunFrame ==
    cli_args.dry_run =>
        /\ launched = <<>>
        /\ \A i \in 1..Len(disk) :
              disk[i].org /\ ~disk[i].tmp /\ ~disk[i].edited /\ PathsOnDisk(i) = <<PathOf(i)>>

====
